---- MODULE Spec2Model ----
(***************************************************************************)
(* Workflow hub (frameworkHub): the workflow validator, the canonical      *)
(* hash and the publish / update / delete handlers of the workflow store.  *)
(*                                                                         *)
(* JSON-decoded JavaScript values are records [k, s, m]:                   *)
(*   k  the kind: "undefined" (an absent property), "null", "boolean",     *)
(*      "number", "string", "object", "array";                             *)
(*   s  the text of a scalar (the characters of a string, the decimal      *)
(*      text of a number, "true" / "false"); "Infinity" is the number a    *)
(*      literal beyond the double range, such as 1e999, decodes to;        *)
(*   m  the entries of an object, in insertion order, as <<key, value>>    *)
(*      pairs; the elements of an array as <<index text, value>> pairs.    *)
(* Texts produced by JSON.stringify are sequences of one-character         *)
(* strings, so that their length and their collation order are computed.   *)
(***************************************************************************)
EXTENDS Integers, Sequences, FiniteSets, TLC

VARIABLES
    content,    \* the document handed to validateWorkflowContent / calculateWorkflowHash
    before,     \* the document an edit was applied to (content is the edited one)
    op,         \* the last step taken: [name, i, key]
    verdict,    \* the outcome of the last validateWorkflowContent call
    hashed,     \* the outcome of the last calculateWorkflowHash call
    request,    \* the clientId and name of the body of the last request
    workflows,  \* the rows of table workflows
    download_logs,  \* the rows of table download_logs
    reports,    \* the rows of table reports
    response    \* the HTTP response of the last request

vars ==
    <<content, before, op, verdict, hashed, request, request, workflows, download_logs, reports, response>>

-----------------------------------------------------------------------------
(* JavaScript values *)

Undef == [k |-> "undefined", s |-> "", m |-> <<>>]
Null == [k |-> "null", s |-> "", m |-> <<>>]
Str(t) == [k |-> "string", s |-> t, m |-> <<>>]
Num(t) == [k |-> "number", s |-> t, m |-> <<>>]
Bool(t) == [k |-> "boolean", s |-> t, m |-> <<>>]
Obj(entries) == [k |-> "object", s |-> "", m |-> entries]
Arr(elems) == [k |-> "array", s |-> "", m |-> [i \in 1..Len(elems) |-> <<ToString(i - 1), elems[i]>>]]

\* !v
Falsy(v) ==
    \/ v.k \in {"undefined", "null"}
    \/ v.k = "boolean" /\ v.s = "false"
    \/ v.k = "number" /\ v.s = "0"
    \/ v.k = "string" /\ v.s = ""

Truthy(v) == ~Falsy(v)

\* typeof v === 'object' (null and arrays included)
TypeofObject(v) == v.k \in {"null", "object", "array"}

IsArray(v) == v.k = "array"

IsString(v) == v.k = "string"

\* key in o, for an object or array o
HasKey(o, key) == \E i \in 1..Len(o.m) : o.m[i][1] = key

\* o.key: the own property of an object; undefined on scalars, and on arrays for
\* the names read here (none is an index or "length")
Get(o, key) ==
    IF o.k = "object" /\ HasKey(o, key)
    THEN o.m[CHOOSE i \in 1..Len(o.m) : o.m[i][1] = key][2]
    ELSE Undef

\* the elements of an array
Elems(a) == [i \in 1..Len(a.m) |-> a.m[i][2]]

\* a || b
OrElse(a, b) == IF Truthy(a) THEN a ELSE b

-----------------------------------------------------------------------------
(* Texts: the characters of the strings the model uses, and String.localeCompare *)

\* The characters of each multi-character string of the model's universe.
SpellTable ==
    [t \in {"null"} |-> <<"n", "u", "l", "l">>]
    @@ "true" :> <<"t", "r", "u", "e">>
    @@ "false" :> <<"f", "a", "l", "s", "e">>
    @@ "unknown" :> <<"u", "n", "k", "n", "o", "w", "n">>
    @@ "wait" :> <<"w", "a", "i", "t">>
    @@ "loop" :> <<"l", "o", "o", "p">>
    @@ "note" :> <<"n", "o", "t", "e">>
    @@ "moduleNode" :> <<"m", "o", "d", "u", "l", "e", "N", "o", "d", "e">>
    @@ "foo" :> <<"f", "o", "o">>
    @@ "bar" :> <<"b", "a", "r">>
    @@ "baz" :> <<"b", "a", "z">>
    @@ "qux" :> <<"q", "u", "x">>
    @@ "id" :> <<"i", "d">>
    @@ "type" :> <<"t", "y", "p", "e">>
    @@ "data" :> <<"d", "a", "t", "a">>
    @@ "config" :> <<"c", "o", "n", "f", "i", "g">>
    @@ "position" :> <<"p", "o", "s", "i", "t", "i", "o", "n">>
    @@ "nodes" :> <<"n", "o", "d", "e", "s">>
    @@ "edges" :> <<"e", "d", "g", "e", "s">>
    @@ "variables" :> <<"v", "a", "r", "i", "a", "b", "l", "e", "s">>
    @@ "name" :> <<"n", "a", "m", "e">>
    @@ "label" :> <<"l", "a", "b", "e", "l">>
    @@ "description" :> <<"d", "e", "s", "c", "r", "i", "p", "t", "i", "o", "n">>
    @@ "url" :> <<"u", "r", "l">>
    @@ "ms" :> <<"m", "s">>
    @@ "source" :> <<"s", "o", "u", "r", "c", "e">>
    @@ "target" :> <<"t", "a", "r", "g", "e", "t">>
    @@ "moduleType" :> <<"m", "o", "d", "u", "l", "e", "T", "y", "p", "e">>
    @@ "sourceType" :> <<"s", "o", "u", "r", "c", "e", "T", "y", "p", "e">>
    @@ "targetType" :> <<"t", "a", "r", "g", "e", "t", "T", "y", "p", "e">>
    @@ "sourceHandle" :> <<"s", "o", "u", "r", "c", "e", "H", "a", "n", "d", "l", "e">>
    @@ "targetHandle" :> <<"t", "a", "r", "g", "e", "t", "H", "a", "n", "d", "l", "e">>
    @@ "__proto__" :> <<"_", "_", "p", "r", "o", "t", "o", "_", "_">>
    @@ "toString" :> <<"t", "o", "S", "t", "r", "i", "n", "g">>
    @@ "[object Object]" :> <<"[", "o", "b", "j", "e", "c", "t", " ", "O", "b", "j", "e", "c", "t", "]">>

\* the limits of validateWorkflowContent: nodes, characters of one node's
\* serialized data, characters of the serialized document
MaxNodeCount == 500
MaxNodeDataLength == 50000
MaxTotalSize == 500000

\* the decimal digits of a natural number
RECURSIVE Digits(_)
Digits(n) == IF n < 10 THEN <<ToString(n)>> ELSE Digits(n \div 10) \o <<ToString(n % 10)>>

\* the ids of the nodes of a long node list: n1, n2, ...
Numbered(i) == "n" \o ToString(i)

NumberedTexts ==
    [t \in {Numbered(i) : i \in 1..(MaxNodeCount + 1)} |->
        <<"n">> \o Digits(CHOOSE i \in 1..(MaxNodeCount + 1) : Numbered(i) = t)]

\* long strings: LongName(n) names the string of n characters x. Their lengths
\* put a node's serialized data ({"ms":"..."}, 9 characters around the string)
\* and a serialized document ({"nodes":[{"id":"a","type":"wait"}],"edges":[],
\* "name":"..."}, 57 characters around the string) at and just over the limits.
LongName(n) == "x*" \o ToString(n)

LongLengths ==
    {MaxNodeDataLength - 9, MaxNodeDataLength - 8, MaxTotalSize - 57, MaxTotalSize - 56}

LongTexts ==
    [t \in {LongName(n) : n \in LongLengths} |->
        [i \in 1..(CHOOSE n \in LongLengths : LongName(n) = t) |-> "x"]]

\* the characters of string t (a one-character string is its own character)
Spell(t) ==
    IF t = "" THEN <<>>
    ELSE IF t \in DOMAIN SpellTable THEN SpellTable[t]
    ELSE IF t \in DOMAIN NumberedTexts THEN NumberedTexts[t]
    ELSE IF t \in DOMAIN LongTexts THEN LongTexts[t]
    ELSE <<t>>

\* The collation order of the characters in use (punctuation, then digits, then
\* letters); an upper-case letter has the primary weight of its lower-case form.
CollationOrder ==
    <<" ", "_", ",", ":", "\"", "[", "]", "{", "}",
      "0", "1", "2", "3", "4", "5", "6", "7", "8", "9",
      "a", "b", "c", "d", "e", "f", "g", "h", "i", "j", "k", "l", "m",
      "n", "o", "p", "q", "r", "s", "t", "u", "v", "w", "x", "y", "z">>

UpperCase == "N" :> "n" @@ "T" :> "t" @@ "H" :> "h" @@ "S" :> "s" @@ "O" :> "o"

LowerOf(c) == IF c \in DOMAIN UpperCase THEN UpperCase[c] ELSE c

\* the primary weight of each character: its place in the collation order
PrimaryWeights ==
    [c \in {CollationOrder[i] : i \in 1..Len(CollationOrder)} |->
        CHOOSE i \in 1..Len(CollationOrder) : CollationOrder[i] = c]

PrimaryWeight(c) == PrimaryWeights[LowerOf(c)]

TertiaryWeight(c) == IF c \in DOMAIN UpperCase THEN 1 ELSE 0

\* lexicographic comparison of two weight sequences: -1, 0 or 1
LexCompare(x, y) ==
    LET n == IF Len(x) < Len(y) THEN Len(x) ELSE Len(y)
        diff == {i \in 1..n : x[i] # y[i]}
        first == CHOOSE i \in diff : \A j \in diff : i <= j
    IN  IF diff = {}
        THEN (IF Len(x) < Len(y) THEN -1 ELSE IF Len(x) > Len(y) THEN 1 ELSE 0)
        ELSE IF x[first] < y[first] THEN -1 ELSE 1

\* a.localeCompare(b) on two texts: primary weights first, case as the tie-break
localeCompare(a, b) ==
    LET p == LexCompare([i \in 1..Len(a) |-> PrimaryWeight(a[i])],
                        [i \in 1..Len(b) |-> PrimaryWeight(b[i])])
    IN  IF p # 0 THEN p
        ELSE LexCompare([i \in 1..Len(a) |-> TertiaryWeight(a[i])],
                        [i \in 1..Len(b) |-> TertiaryWeight(b[i])])

-----------------------------------------------------------------------------
(* JSON.stringify *)

Quote(t) == <<"\"">> \o Spell(t) \o <<"\"">>

RECURSIVE Stringify(_)
RECURSIVE Members(_, _, _)
RECURSIVE Items(_, _, _)

\* the members of an object from entry i on; a member whose value is undefined
\* is left out
Members(m, i, first) ==
    IF i > Len(m) THEN <<>>
    ELSE IF m[i][2].k = "undefined" THEN Members(m, i + 1, first)
    ELSE (IF first THEN <<>> ELSE <<",">>)
         \o Quote(m[i][1]) \o <<":">> \o Stringify(m[i][2])
         \o Members(m, i + 1, FALSE)

\* the elements lo..hi of an array, each but the first after a comma; the range
\* is written half by half
Items(m, lo, hi) ==
    IF lo > hi THEN <<>>
    ELSE IF lo = hi THEN (IF lo = 1 THEN <<>> ELSE <<",">>) \o Stringify(m[lo][2])
    ELSE Items(m, lo, (lo + hi) \div 2) \o Items(m, ((lo + hi) \div 2) + 1, hi)

\* JSON.stringify(v), for a value other than undefined
Stringify(v) ==
    CASE v.k = "null" -> Spell("null")
      [] v.k = "boolean" -> Spell(v.s)
      [] v.k = "number" -> IF v.s = "Infinity" THEN Spell("null") ELSE Spell(v.s)
      [] v.k = "string" -> Quote(v.s)
      [] v.k = "object" -> <<"{">> \o Members(v.m, 1, TRUE) \o <<"}">>
      [] v.k = "array" -> <<"[">> \o Items(v.m, 1, Len(v.m)) \o <<"]">>
      [] OTHER -> Spell("null")

-----------------------------------------------------------------------------
(* JSON.parse, of the texts JSON.stringify writes *)

\* the string of the given characters
Unspell(chars) ==
    IF chars = <<>> THEN ""
    ELSE IF Len(chars) = 1 THEN chars[1]
    ELSE CHOOSE t \in (DOMAIN SpellTable) \cup (DOMAIN NumberedTexts) : Spell(t) = chars

\* the first place from i on that holds one of the characters, or the end of the text
FirstAt(t, i, chars) ==
    CHOOSE j \in i..(Len(t) + 1) :
        /\ j = Len(t) + 1 \/ t[j] \in chars
        /\ \A k \in i..(j - 1) : t[k] \notin chars

\* a value read, and the place after it
ParsedAt(v, next) == [v |-> v, next |-> next]

\* the string literal that opens at i
ParseString(t, i) ==
    ParsedAt(Unspell(SubSeq(t, i + 1, FirstAt(t, i + 1, {"\""}) - 1)),
             FirstAt(t, i + 1, {"\""}) + 1)

RECURSIVE ParseValue(_, _)
RECURSIVE ParseMembers(_, _, _)
RECURSIVE MembersAfterKey(_, _, _)
RECURSIVE MembersAfterValue(_, _, _, _)
RECURSIVE ParseItems(_, _, _)
RECURSIVE ItemsAfterValue(_, _, _)

MembersAfterValue(t, acc, key, val) ==
    IF t[val.next] = ","
    THEN ParseMembers(t, val.next + 1, Append(acc, <<key, val.v>>))
    ELSE ParsedAt(Obj(Append(acc, <<key, val.v>>)), val.next + 1)

MembersAfterKey(t, acc, key) == MembersAfterValue(t, acc, key.v, ParseValue(t, key.next + 1))

\* the members of an object from the key that opens at i on; the entries keep
\* the order of the text (no key of the model is an array index)
ParseMembers(t, i, acc) == MembersAfterKey(t, acc, ParseString(t, i))

ItemsAfterValue(t, acc, val) ==
    IF t[val.next] = ","
    THEN ParseItems(t, val.next + 1, Append(acc, val.v))
    ELSE ParsedAt(Arr(Append(acc, val.v)), val.next + 1)

\* the elements of an array from the value that opens at i on
ParseItems(t, i, acc) == ItemsAfterValue(t, acc, ParseValue(t, i))

ParseValue(t, i) ==
    CASE t[i] = "{" ->
            IF t[i + 1] = "}" THEN ParsedAt(Obj(<<>>), i + 2) ELSE ParseMembers(t, i + 1, <<>>)
      [] t[i] = "[" ->
            IF t[i + 1] = "]" THEN ParsedAt(Arr(<<>>), i + 2) ELSE ParseItems(t, i + 1, <<>>)
      [] t[i] = "\"" -> ParsedAt(Str(ParseString(t, i).v), ParseString(t, i).next)
      [] t[i] = "n" -> ParsedAt(Null, i + 4)
      [] t[i] = "t" -> ParsedAt(Bool("true"), i + 4)
      [] t[i] = "f" -> ParsedAt(Bool("false"), i + 5)
      [] OTHER -> ParsedAt(Num(Unspell(SubSeq(t, i, FirstAt(t, i, {",", "}", "]"}) - 1))),
                           FirstAt(t, i, {",", "}", "]"}))

\* JSON.parse(text)
JSONparse(text) == ParseValue(text, 1).v

-----------------------------------------------------------------------------
(* String conversion, as Array.prototype.join and localeCompare apply it *)

RECURSIVE ToStringJS(_)
RECURSIVE JoinFrom(_, _, _)

\* elems.slice(i - 1).join(sep): [threw, text]; null and undefined elements give ''
JoinFrom(elems, i, sep) ==
    IF i > Len(elems) THEN [threw |-> FALSE, text |-> <<>>]
    ELSE LET head == IF elems[i].k \in {"undefined", "null"}
                     THEN [threw |-> FALSE, text |-> <<>>]
                     ELSE ToStringJS(elems[i])
             rest == JoinFrom(elems, i + 1, sep)
         IN  IF head.threw \/ rest.threw THEN [threw |-> TRUE, text |-> <<>>]
             ELSE [threw |-> FALSE,
                   text |-> head.text \o (IF i < Len(elems) THEN sep ELSE <<>>) \o rest.text]

\* String(v): a JSON-decoded object with an own "toString" entry has no callable
\* toString, and Object.prototype.valueOf gives back the object: a TypeError
ToStringJS(v) ==
    CASE v.k = "object" ->
            IF HasKey(v, "toString") THEN [threw |-> TRUE, text |-> <<>>]
            ELSE [threw |-> FALSE, text |-> Spell("[object Object]")]
      [] v.k = "array" -> JoinFrom(Elems(v), 1, <<",">>)
      [] v.k = "null" -> [threw |-> FALSE, text |-> Spell("null")]
      [] OTHER -> [threw |-> FALSE, text |-> Spell(v.s)]

-----------------------------------------------------------------------------
(* calculateWorkflowHash *)

ignoreKeys == {"label", "name", "description", "x", "y", "position", "id"}

\* Object.entries(data): the entries of an object or array, the indexed
\* characters of a string, nothing for the other scalars
ObjectEntries(data) ==
    CASE data.k \in {"object", "array"} -> data.m
      [] data.k = "string" ->
            [i \in 1..Len(Spell(data.s)) |-> <<ToString(i - 1), Str(Spell(data.s)[i])>>]
      [] OTHER -> <<>>

\* a filter that forgets ignoreKeys: with it a label is part of the digest
KeptEntryWithCosmetics(e) ==
    /\ e[1] # "__proto__"
    /\ e[2].k # "undefined"
    /\ e[2].k # "null"
    /\ ~(e[2].k = "string" /\ e[2].s = "")

\* the entries normalizeNodeData keeps. normalized[key] = value with the key
\* "__proto__" (an own property of a JSON-decoded object) runs the setter of
\* Object.prototype: it sets the prototype of normalized or does nothing, and
\* normalized gets no own property.
KeptEntry(e) ==
    /\ e[1] \notin ignoreKeys
    /\ e[1] # "__proto__"
    /\ e[2].k # "undefined"
    /\ e[2].k # "null"
    /\ ~(e[2].k = "string" /\ e[2].s = "")

normalizeNodeData(data) == Obj(SelectSeq(ObjectEntries(data), KeptEntry))

\* (nodes || []).find(n => n.id === nodeId)?.type || 'unknown'
findNodeType(nodes, nodeId) ==
    LET list == IF Truthy(nodes) THEN Elems(nodes) ELSE <<>>
        hits == {i \in 1..Len(list) :
                    /\ Get(list[i], "id").k = nodeId.k
                    /\ nodeId.k \in {"string", "number", "boolean", "null", "undefined"}
                    /\ Get(list[i], "id").s = nodeId.s}
    IN  IF hits = {} THEN Str("unknown")
        ELSE OrElse(Get(list[CHOOSE i \in hits : \A j \in hits : i <= j], "type"),
                    Str("unknown"))

\* the element of nodes.map(...)
CanonicalNode(node) ==
    Obj(<< <<"type", Get(node, "type")>>,
           <<"data", normalizeNodeData(
                        OrElse(Get(node, "data"), OrElse(Get(node, "config"), Obj(<<>>))))>> >>)

\* the element of edges.map(...)
CanonicalEdge(nodes, edge) ==
    Obj(<< <<"sourceType", findNodeType(nodes, Get(edge, "source"))>>,
           <<"targetType", findNodeType(nodes, Get(edge, "target"))>>,
           <<"sourceHandle", OrElse(Get(edge, "sourceHandle"), Null)>>,
           <<"targetHandle", OrElse(Get(edge, "targetHandle"), Null)>> >>)

\* the comparator of the node sort: [threw, r]. (a.type || '') must be a string to
\* have localeCompare; its argument is converted to a string.
NodeCompare(a, b) ==
    LET ta == OrElse(Get(a, "type"), Str(""))
        tb == ToStringJS(OrElse(Get(b, "type"), Str("")))
    IN  IF ta.k # "string" \/ tb.threw THEN [threw |-> TRUE, r |-> 0]
        ELSE LET typeCompare == localeCompare(Spell(ta.s), tb.text)
             IN  IF typeCompare # 0 THEN [threw |-> FALSE, r |-> typeCompare]
                 ELSE [threw |-> FALSE,
                       r |-> localeCompare(Stringify(Get(a, "data")),
                                           Stringify(Get(b, "data")))]

\* the comparator of the edge sort
EdgeCompare(a, b) == [threw |-> FALSE, r |-> localeCompare(Stringify(a), Stringify(b))]

Compare(which, a, b) == IF which = "nodes" THEN NodeCompare(a, b) ELSE EdgeCompare(a, b)

\* Array.prototype.sort with a comparator: a stable insertion sort, each element
\* compared (as the receiver a) with the elements before it, from the right.
RECURSIVE InsertInto(_, _, _, _)
RECURSIVE SortFrom(_, _, _, _)

\* x goes after out[j] unless the comparator put it before: c is its result
InsertAfter(which, out, x, j, c) ==
    IF c.threw THEN [threw |-> TRUE, out |-> <<>>]
    ELSE IF c.r < 0 THEN InsertInto(which, out, x, j - 1)
    ELSE [threw |-> FALSE,
          out |-> SubSeq(out, 1, j) \o <<x>> \o SubSeq(out, j + 1, Len(out))]

InsertInto(which, out, x, j) ==
    IF j = 0 THEN [threw |-> FALSE, out |-> <<x>> \o out]
    ELSE InsertAfter(which, out, x, j, Compare(which, x, out[j]))

\* the sort goes on after element i was inserted, unless the comparator threw
SortAfter(which, list, i, ins) ==
    IF ins.threw THEN ins ELSE SortFrom(which, list, i + 1, ins.out)

SortFrom(which, list, i, out) ==
    IF i > Len(list) THEN [threw |-> FALSE, out |-> out]
    ELSE SortAfter(which, list, i, InsertInto(which, out, list[i], Len(out)))

Sort(which, list) == SortFrom(which, list, 1, <<>>)

\* return { nodes, edges }, unless a comparator threw
Normalized(nodes, edges) ==
    IF nodes.threw \/ edges.threw THEN [threw |-> TRUE, value |-> Null]
    ELSE [threw |-> FALSE,
          value |-> Obj(<< <<"nodes", Arr(nodes.out)>>, <<"edges", Arr(edges.out)>> >>)]

\* normalizeWorkflowForHash(content): [threw, value]
normalizeWorkflowForHash(c) ==
    LET rawNodes == OrElse(Get(c, "nodes"), Arr(<<>>))
        rawEdges == OrElse(Get(c, "edges"), Arr(<<>>))
    IN  Normalized(
            Sort("nodes", [i \in 1..Len(rawNodes.m) |-> CanonicalNode(rawNodes.m[i][2])]),
            Sort("edges", [i \in 1..Len(rawEdges.m) |->
                                CanonicalEdge(Get(c, "nodes"), rawEdges.m[i][2])]))

\* createHash('sha256').update(JSON.stringify(normalizedContent)).digest('hex').
\* SHA-256 is taken as injective: the digest is the text that is hashed.
Digest(normalizedContent) ==
    IF normalizedContent.threw THEN [threw |-> TRUE, digest |-> <<>>]
    ELSE [threw |-> FALSE, digest |-> Stringify(normalizedContent.value)]

\* calculateWorkflowHash(content): [threw, digest]
calculateWorkflowHash(c) == Digest(normalizeWorkflowForHash(c))

-----------------------------------------------------------------------------
(* validateWorkflowContent *)

validModuleTypes ==
    {"open_page", "click_element", "input_text", "get_element_info", "wait", "wait_element",
     "close_page", "refresh_page", "go_back", "go_forward", "handle_dialog",
     "select_dropdown", "set_checkbox", "drag_element", "scroll_page", "upload_file",
     "set_variable", "json_parse", "base64", "random_number", "get_time", "download_file",
     "save_image", "screenshot", "read_excel", "hover_element", "string_concat",
     "regex_extract", "string_replace", "string_split", "string_join", "string_trim",
     "string_case", "string_substring",
     "list_operation", "list_get", "list_length",
     "dict_operation", "dict_get", "dict_keys",
     "table_add_row", "table_add_column", "table_set_cell", "table_get_cell",
     "table_delete_row", "table_clear", "table_export",
     "db_connect", "db_query", "db_execute", "db_insert", "db_update", "db_delete", "db_close",
     "api_request", "send_email",
     "ai_chat", "ai_vision",
     "ocr_captcha", "slider_captcha",
     "condition", "loop", "foreach", "break_loop", "continue_loop", "scheduled_task",
     "subflow",
     "print_log", "play_sound", "play_music", "input_prompt", "text_to_speech",
     "js_script", "set_clipboard", "get_clipboard", "keyboard_action", "real_mouse_scroll",
     "group", "note"}

validReactFlowTypes == {"moduleNode", "groupNode", "noteNode"}

MaxNamedTypes == 3

\* Set.prototype.has on a set of strings
SetHas(set, v) == v.k = "string" /\ v.s \in set

\* the verdicts: { valid: true, nodeCount }, { valid: false, error }, or an
\* exception leaving the function. An error is its message and the texts
\* substituted into it.
\* a success result that leaves the count out
AcceptUncounted(n) == [valid |-> TRUE, nodeCount |-> 0, msg |-> "", args |-> <<>>, threw |-> FALSE]

Accept(n) == [valid |-> TRUE, nodeCount |-> n, msg |-> "", args |-> <<>>, threw |-> FALSE]
Reject(msg, args) == [valid |-> FALSE, nodeCount |-> 0, msg |-> msg, args |-> args, threw |-> FALSE]
Thrown == [valid |-> FALSE, nodeCount |-> 0, msg |-> "", args |-> <<>>, threw |-> TRUE]

NumText(n) == Digits(n)

\* the module type the node loop resolves: data.moduleType when truthy, else
\* type when truthy, else null
ResolveModuleType(node) ==
    LET data == Get(node, "data")
    IN  IF Truthy(data) /\ Truthy(Get(data, "moduleType")) THEN Get(data, "moduleType")
        ELSE IF Truthy(Get(node, "type")) THEN Get(node, "type")
        ELSE Null

\* iteration i of the node loop: an early return, or none
NodeVerdict(node, i) ==
    LET id == Get(node, "id")
        Return(v) == [returned |-> TRUE, verdict |-> v]
    IN  IF Falsy(node) \/ ~TypeofObject(node)
        THEN Return(Reject("node #N: invalid format", <<NumText(i)>>))
        ELSE IF Falsy(id) \/ ~IsString(id)
        THEN Return(Reject("node #N: no valid id field", <<NumText(i)>>))
        ELSE IF Falsy(ResolveModuleType(node))
        THEN Return(Reject("node ID: no module type", <<Spell(id.s)>>))
        ELSE IF Truthy(Get(node, "position")) /\ ~TypeofObject(Get(node, "position"))
        THEN Return(Reject("node ID: invalid position", <<Spell(id.s)>>))
        ELSE IF Len(Stringify(OrElse(Get(node, "data"), Obj(<<>>)))) > MaxNodeDataLength
        THEN Return(Reject("node ID: data too large (over 50KB)", <<Spell(id.s)>>))
        ELSE [returned |-> FALSE, verdict |-> Accept(0)]

\* a module type that is pushed on invalidTypes
IsInvalidType(moduleType) ==
    ~SetHas(validModuleTypes, moduleType) /\ ~SetHas(validReactFlowTypes, moduleType)

\* the node loop from node i on: the return of the first iteration that returns,
\* or the two counters after the last one
CheckNodes(nodes, i, validNodeCount, invalidTypes) ==
    LET returns == {j \in i..Len(nodes) : NodeVerdict(nodes[j], j).returned}
        first == CHOOSE j \in returns : \A k \in returns : j <= k
        moduleTypes == [j \in 1..(Len(nodes) - i + 1) |-> ResolveModuleType(nodes[j + i - 1])]
    IN  IF returns # {}
        THEN [returned |-> TRUE, verdict |-> NodeVerdict(nodes[first], first).verdict,
              validNodeCount |-> validNodeCount, invalidTypes |-> invalidTypes]
        ELSE [returned |-> FALSE, verdict |-> Accept(0),
              validNodeCount |-> validNodeCount
                  + Cardinality({j \in 1..Len(moduleTypes) :
                                    SetHas(validModuleTypes, moduleTypes[j])}),
              invalidTypes |-> invalidTypes \o SelectSeq(moduleTypes, IsInvalidType)]

\* [...new Set(list)]: the first occurrence of each value; two objects or arrays
\* are never the same value
SameValueZero(a, b) ==
    a.k = b.k /\ a.k \notin {"object", "array"} /\ a.s = b.s

Unique(list) ==
    LET keep == {i \in 1..Len(list) : \A j \in 1..(i - 1) : ~SameValueZero(list[j], list[i])}
        Keep(i) == i \in keep
        idx == SelectSeq([i \in 1..Len(list) |-> i], Keep)
    IN  [i \in 1..Len(idx) |-> list[idx[i]]]

\* the verdict on the module types, after the node loop: a verdict, or passed
CheckModuleTypes(validNodeCount, invalidTypes) ==
    IF validNodeCount = 0
    THEN [returned |-> TRUE, verdict |-> Reject("not a Web RPA workflow: no valid module type", <<>>)]
    ELSE IF Len(invalidTypes) > 0
    THEN LET uniqueInvalid == Unique(invalidTypes)
             shown == JoinFrom(SubSeq(uniqueInvalid, 1,
                          IF Len(uniqueInvalid) < MaxNamedTypes
                          THEN Len(uniqueInvalid) ELSE MaxNamedTypes), 1, <<",", " ">>)
         IN  IF Len(uniqueInvalid) > MaxNamedTypes
             THEN [returned |-> TRUE,
                   verdict |-> Reject("N unsupported module types: maybe not a Web RPA workflow",
                                      <<NumText(Len(uniqueInvalid))>>)]
             ELSE IF shown.threw
             THEN [returned |-> TRUE, verdict |-> Thrown]
             ELSE [returned |-> TRUE,
                   verdict |-> Reject("unsupported module types: LIST", <<shown.text>>)]
    ELSE [returned |-> FALSE, verdict |-> Accept(0)]

\* new Set(content.nodes.map(n => n.id)): after the node loop every id is a string
NodeIds(nodes) == {Get(nodes[i], "id").s : i \in 1..Len(nodes)}

\* an edge loop that forgets to look the target up
RECURSIVE CheckEdgesSourceOnly(_, _, _)
CheckEdgesSourceOnly(edges, i, nodeIds) ==
    IF i > Len(edges) THEN [returned |-> FALSE, verdict |-> Accept(0)]
    ELSE
    LET edge == edges[i]
        source == Get(edge, "source")
        target == Get(edge, "target")
        Return(v) == [returned |-> TRUE, verdict |-> v]
    IN  IF Falsy(edge) \/ ~TypeofObject(edge)
        THEN Return(Reject("edge #N: invalid format", <<NumText(i)>>))
        ELSE IF Falsy(source) \/ ~IsString(source)
        THEN Return(Reject("edge #N: no valid source field", <<NumText(i)>>))
        ELSE IF Falsy(target) \/ ~IsString(target)
        THEN Return(Reject("edge #N: no valid target field", <<NumText(i)>>))
        ELSE IF source.s \notin nodeIds
        THEN Return(Reject("edge names a missing source node: ID", <<Spell(source.s)>>))
        ELSE CheckEdgesSourceOnly(edges, i + 1, nodeIds)

\* the edge loop from edge i on: an early return, or passed
RECURSIVE CheckEdges(_, _, _)
CheckEdges(edges, i, nodeIds) ==
    IF i > Len(edges) THEN [returned |-> FALSE, verdict |-> Accept(0)]
    ELSE
    LET edge == edges[i]
        source == Get(edge, "source")
        target == Get(edge, "target")
        Return(v) == [returned |-> TRUE, verdict |-> v]
    IN  IF Falsy(edge) \/ ~TypeofObject(edge)
        THEN Return(Reject("edge #N: invalid format", <<NumText(i)>>))
        ELSE IF Falsy(source) \/ ~IsString(source)
        THEN Return(Reject("edge #N: no valid source field", <<NumText(i)>>))
        ELSE IF Falsy(target) \/ ~IsString(target)
        THEN Return(Reject("edge #N: no valid target field", <<NumText(i)>>))
        ELSE IF source.s \notin nodeIds
        THEN Return(Reject("edge names a missing source node: ID", <<Spell(source.s)>>))
        ELSE IF target.s \notin nodeIds
        THEN Return(Reject("edge names a missing target node: ID", <<Spell(target.s)>>))
        ELSE CheckEdges(edges, i + 1, nodeIds)

\* the variable loop from variable i on
RECURSIVE CheckVariables(_, _)
CheckVariables(variables, i) ==
    IF i > Len(variables) THEN [returned |-> FALSE, verdict |-> Accept(0)]
    ELSE
    LET variable == variables[i]
    IN  IF Falsy(variable) \/ ~TypeofObject(variable)
        THEN [returned |-> TRUE, verdict |-> Reject("variable #N: invalid format", <<NumText(i)>>)]
        ELSE IF Falsy(Get(variable, "name")) \/ ~IsString(Get(variable, "name"))
        THEN [returned |-> TRUE,
              verdict |-> Reject("variable #N: no valid name field", <<NumText(i)>>)]
        ELSE CheckVariables(variables, i + 1)

validateWorkflowContent(c) ==
    IF Falsy(c) \/ ~TypeofObject(c)
    THEN Reject("invalid JSON format", <<>>)
    ELSE IF IsArray(c)
    THEN Reject("workflow must be an object, not an array", <<>>)
    ELSE IF ~HasKey(c, "nodes")
    THEN Reject("no nodes field", <<>>)
    ELSE IF ~HasKey(c, "edges")
    THEN Reject("no edges field", <<>>)
    ELSE IF ~IsArray(Get(c, "nodes"))
    THEN Reject("nodes must be an array", <<>>)
    ELSE IF ~IsArray(Get(c, "edges"))
    THEN Reject("edges must be an array", <<>>)
    ELSE IF Len(Get(c, "nodes").m) = 0
    THEN Reject("at least one node is needed", <<>>)
    ELSE IF Len(Get(c, "nodes").m) > MaxNodeCount
    THEN Reject("no more than 500 nodes", <<>>)
    ELSE
    LET nodes == Elems(Get(c, "nodes"))
        edges == Elems(Get(c, "edges"))
        loop == CheckNodes(nodes, 1, 0, <<>>)
        types == CheckModuleTypes(loop.validNodeCount, loop.invalidTypes)
        links == CheckEdges(edges, 1, NodeIds(nodes))
        variables == Get(c, "variables")
        vars_ == CheckVariables(Elems(variables), 1)
    IN  IF loop.returned THEN loop.verdict
        ELSE IF types.returned THEN types.verdict
        ELSE IF links.returned THEN links.verdict
        ELSE IF variables.k # "undefined" /\ ~IsArray(variables)
        THEN Reject("variables must be an array", <<>>)
        ELSE IF variables.k # "undefined" /\ vars_.returned THEN vars_.verdict
        ELSE IF Len(Stringify(c)) > MaxTotalSize
        THEN Reject("workflow too large (over 500KB)", <<>>)
        ELSE Accept(Len(nodes))

\* sanitizeWorkflow(content): the content as it is
sanitizeWorkflow(c) == c

-----------------------------------------------------------------------------
(* The documents the checks run on *)

MaxNodes == 2      \* nodes of a document with nodes of any shape
MaxEdges == 1      \* edges of a document with edges of any shape
MaxLinks == 2      \* edges of a document whose hash is taken
MaxKinds == 5      \* nodes of a document of flat nodes of mixed kinds

Present(e) == e[2].k # "undefined"

\* an object with the given entries, those of value undefined left out
ObjOf(entries) == Obj(SelectSeq(entries, Present))

Node(id, type, data, position) ==
    ObjOf(<< <<"id", id>>, <<"type", type>>, <<"data", data>>, <<"position", position>> >>)

Edge(source, target, sourceHandle) ==
    ObjOf(<< <<"source", source>>, <<"target", target>>, <<"sourceHandle", sourceHandle>> >>)

Doc(nodes, edges, variables) ==
    ObjOf(<< <<"nodes", Arr(nodes)>>, <<"edges", Arr(edges)>>, <<"variables", variables>> >>)

SeqsUpTo(S, n) == UNION {[1..k -> S] : k \in 0..n}

\* an object whose own "toString" entry hides Object.prototype.toString
NoToString == Obj(<< <<"toString", Num("1")>> >>)

\* documents that are no object, or lack nodes / edges, or hold them in another shape
TopInputs ==
    {Null, Num("5"), Str(""), Str("x"), Bool("true"), Arr(<<>>), Arr(<<Num("5")>>), Obj(<<>>),
     Obj(<< <<"nodes", Arr(<<>>)>> >>),
     Obj(<< <<"edges", Arr(<<>>)>> >>),
     Obj(<< <<"nodes", Null>>, <<"edges", Arr(<<>>)>> >>),
     Obj(<< <<"nodes", Obj(<<>>)>>, <<"edges", Arr(<<>>)>> >>),
     Obj(<< <<"nodes", Arr(<<Node(Str("a"), Str("wait"), Undef, Undef)>>)>>, <<"edges", Null>> >>),
     Obj(<< <<"nodes", Arr(<<Node(Str("a"), Str("wait"), Undef, Undef)>>)>>, <<"edges", Str("x")>> >>),
     Doc(<<>>, <<>>, Undef)}

\* the nodes of any shape
NodeValues ==
    {Null, Num("5"), Str("x"), Arr(<<>>)}
    \cup {Node(id, type, data, Undef) :
            id \in {Undef, Str("a"), Str("b")},
            type \in {Undef, Str("wait"), Str("moduleNode"), Str("foo"), NoToString},
            data \in {Undef, Obj(<< <<"moduleType", Str("loop")>> >>)}}
    \cup {Node(Str(""), Str("wait"), Undef, Undef), Node(Num("5"), Str("wait"), Undef, Undef),
          Node(Str("a"), Str("wait"), Undef, Num("5")),
          Node(Str("a"), Str("wait"), Undef, Obj(<<>>)),
          Node(Str("a"), Str("wait"), Str("x"), Undef),
          Node(Str("a"), Str("wait"), Obj(<< <<"moduleType", Str("")>> >>), Undef),
          Node(Str("a"), Str("wait"), Obj(<< <<"moduleType", Str("bar")>> >>), Undef)}

\* nodes that pass the node loop; two of them share an id
WellFormedNodes ==
    {Node(Str("a"), Str("wait"), Undef, Undef),
     Node(Str("a"), Str("loop"), Undef, Undef),
     Node(Str("b"), Str("moduleNode"), Obj(<< <<"moduleType", Str("loop")>> >>), Undef)}

\* node lists with a node of any shape at one place, the loop returns at the
\* first node it refuses
NodeLists ==
    UNION {{[nodes EXCEPT ![i] = v] : nodes \in [1..k -> WellFormedNodes], i \in 1..k,
                                       v \in NodeValues} : k \in 1..MaxNodes}

NodeInputs == {Doc(nodes, <<>>, Undef) : nodes \in NodeLists}

\* the edges of any shape, over the ids of node lists whose nodes are well formed
EdgeNodes ==
    {<<Node(Str("a"), Str("wait"), Undef, Undef), Node(Str("b"), Str("loop"), Undef, Undef)>>,
     <<Node(Str("a"), Str("wait"), Undef, Undef), Node(Str("a"), Str("loop"), Undef, Undef)>>,
     <<Node(Str("a"), Str("wait"), Undef, Undef), Node(Str("b"), Str("foo"), Undef, Undef)>>}

EdgeValues ==
    {Null, Str("a"), Arr(<<>>)}
    \cup {Edge(source, target, Undef) :
            source \in {Undef, Str(""), Num("5"), Str("a"), Str("b"), Str("c")},
            target \in {Undef, Str(""), Str("a"), Str("b"), Str("d")}}

EdgeInputs ==
    {Doc(nodes, edges, Undef) : nodes \in EdgeNodes, edges \in SeqsUpTo(EdgeValues, MaxEdges)}

\* the variables of any shape
VariableValues ==
    {Null, Str("x"), Obj(<<>>), Obj(<< <<"name", Str("")>> >>), Obj(<< <<"name", Num("5")>> >>),
     Obj(<< <<"name", Str("x")>> >>)}

VariableInputs ==
    {Doc(<<Node(Str("a"), Str("wait"), Undef, Undef)>>, <<>>, variables) :
        variables \in {Null, Str("x"), Obj(<<>>)}
                      \cup {Arr(vs) : vs \in SeqsUpTo(VariableValues, MaxNodes)}}

\* flat nodes with distinct ids, of known, wrapper and unknown kinds
FirstKindValues == {Str("wait"), Str("moduleNode"), Str("foo")}

KindValues == {Str("wait"), Str("foo"), Str("bar"), Str("baz"), Str("qux")}

NodeIdPool == <<"a", "b", "c", "d", "e", "f", "g">>

KindInputs ==
    {Doc([i \in 1..Len(kinds) |-> Node(Str(NodeIdPool[i]), kinds[i], Undef, Undef)], <<>>, Undef) :
        kinds \in {<<first>> \o rest : first \in FirstKindValues,
                                         rest \in [1..(MaxKinds - 1) -> KindValues]}}

\* long node lists: one node under the limit, at the limit, one node over it;
\* all nodes of a known kind, or the last one of an unknown kind
LongNodes(n) == [i \in 1..n |-> Node(Str(Numbered(i)), Str("wait"), Undef, Undef)]

CountInputs ==
    {Doc(LongNodes(n), <<>>, Undef) : n \in (MaxNodeCount - 1)..(MaxNodeCount + 1)}
    \cup {Doc([LongNodes(n) EXCEPT ![n] = Node(Str(Numbered(n)), Str("foo"), Undef, Undef)],
               <<>>, Undef) : n \in MaxNodeCount..(MaxNodeCount + 1)}

\* a node whose serialized data has n + 9 characters
SizedNode(id, type, n) == Node(Str(id), type, Obj(<< <<"ms", Str(LongName(n))>> >>), Undef)

\* a document with an extra field, which serializes to n + 57 characters when
\* nodes is one flat node
Named(nodes, n) ==
    ObjOf(<< <<"nodes", Arr(nodes)>>, <<"edges", Arr(<<>>)>>, <<"name", Str(LongName(n))>> >>)

\* documents at and over the two size limits, alone and next to other defects
SizeInputs ==
    {Doc(<<SizedNode("a", type, n)>>, <<>>, Undef) :
        type \in {Str("wait"), Str("foo")},
        n \in {MaxNodeDataLength - 9, MaxNodeDataLength - 8}}
    \cup {Doc(<<Node(Str("a"), Str("wait"), Undef, Undef), Node(Str("b"), type, Undef, Undef),
                SizedNode("c", Str("wait"), n)>>, <<>>, Undef) :
            type \in {Str("loop"), NoToString},
            n \in {MaxNodeDataLength - 9, MaxNodeDataLength - 8}}
    \cup {Named(<<Node(Str("a"), type, Undef, Undef)>>, n) :
            type \in {Str("wait"), Str("foo")},
            n \in {MaxTotalSize - 57, MaxTotalSize - 56}}
    \cup {Named(<<Node(Str("a"), Str("wait"), Undef, Undef), Node(Str("b"), NoToString, Undef, Undef)>>,
                 MaxTotalSize - 56)}

\* documents that fail several checks at once
OrderInputs ==
    {Doc(<<Node(Undef, Str("wait"), Undef, Undef), Node(Str("b"), Str("foo"), Undef, Undef)>>,
         <<>>, Undef),
     Doc(<<Node(Str("a"), Str("foo"), Undef, Undef), Node(Undef, Str("wait"), Undef, Undef)>>,
         <<Edge(Str("a"), Str("d"), Undef)>>, Undef),
     Doc(<<Node(Str("a"), Str("foo"), Undef, Undef)>>, <<Edge(Str("a"), Str("d"), Undef)>>, Null),
     Doc(<<Node(Str("a"), Str("wait"), Undef, Undef), Node(Str("b"), NoToString, Undef, Undef)>>,
         <<Edge(Str("a"), Str("d"), Undef)>>, Undef),
     Doc(<<Node(Str("a"), Str("wait"), Undef, Undef)>>, <<Edge(Str("a"), Str("d"), Undef)>>, Null),
     Doc(<<Node(Str("a"), Str("wait"), Undef, Undef)>>, <<Null>>, Arr(<<Null>>)),
     Doc([LongNodes(MaxNodeCount + 1) EXCEPT ![1] = Null], <<Null>>, Null),
     ObjOf(<< <<"nodes", Arr(<<Node(Str("a"), Str("wait"), Undef, Undef)>>)>>,
              <<"edges", Arr(<<>>)>>, <<"variables", Str("x")>>,
              <<"name", Str(LongName(MaxTotalSize - 56))>> >>),
     Obj(<< <<"nodes", Arr(<<>>)>>, <<"edges", Str("x")>> >>)}

ValidateInputs ==
    TopInputs \cup NodeInputs \cup EdgeInputs \cup VariableInputs \cup KindInputs
    \cup CountInputs \cup SizeInputs \cup OrderInputs

-----------------------------------------------------------------------------
(* Validation of one document *)

NoVerdict == [valid |-> FALSE, nodeCount |-> 0, msg |-> "(none)", args |-> <<>>, threw |-> FALSE]
NoHash == [threw |-> FALSE, digest |-> <<"(none)">>]
NoRequest == [clientId |-> Undef, name |-> ""]
NoResponse == [status |-> 0, existingId |-> "", existingName |-> "", content |-> Undef]

\* the last step: its name, the index of the node or edge it acted on, the key
Step(name, i, key) == [name |-> name, i |-> i, key |-> key]

InitValidate ==
    /\ content \in ValidateInputs
    /\ before = Null
    /\ op = Step("input", 0, "")
    /\ verdict = NoVerdict
    /\ hashed = NoHash
    /\ request = NoRequest
    /\ workflows = {}
    /\ download_logs = {}
    /\ reports = {}
    /\ response = NoResponse

\* the document after validateWorkflowContent(c) returned or threw: the function
\* assigns to its own variables only (moduleType, validNodeCount, invalidTypes,
\* nodeIds), never to the document or to a part of it
AfterValidate(c) == c

\* one call of validateWorkflowContent(content)
Validate ==
    /\ op.name = "input"
    /\ verdict' = validateWorkflowContent(content)
    /\ content' = AfterValidate(content)
    /\ op' = Step("validate", 0, "")
    /\ UNCHANGED <<before, hashed, request, workflows, download_logs, reports, response>>

NextValidate == Validate

SpecValidate == InitValidate /\ [][NextValidate]_vars

-----------------------------------------------------------------------------
(* Properties of validateWorkflowContent *)

\* content is an object holding arrays nodes and edges
IsDocument(c) ==
    /\ c.k = "object"
    /\ IsArray(Get(c, "nodes"))
    /\ IsArray(Get(c, "edges"))

NodesOf(c) == IF IsDocument(c) THEN Elems(Get(c, "nodes")) ELSE <<>>
EdgesOf(c) == IF IsDocument(c) THEN Elems(Get(c, "edges")) ELSE <<>>

\* the ids the nodes of c bear
IdsOf(c) == {Get(NodesOf(c)[i], "id").s : i \in {j \in 1..Len(NodesOf(c)) : IsString(Get(NodesOf(c)[j], "id"))}}

\* the effective step kind of a node: data.moduleType when it has one, else type
EffectiveKind(node) ==
    IF Truthy(Get(Get(node, "data"), "moduleType")) THEN Get(Get(node, "data"), "moduleType")
    ELSE Get(node, "type")

\* C7: validateWorkflowContent gives a verdict { valid: true, nodeCount } or
\* { valid: false, error } for every JSON-decoded input, and never throws.
ValidatorTotal ==
    op.name = "validate" =>
        /\ ~verdict.threw
        /\ verdict.valid \/ verdict.msg # ""

\* C8: every document validateWorkflowContent accepts has pairwise distinct node ids.
AcceptedIdsDistinct ==
    (op.name = "validate" /\ verdict.valid) =>
        \A i, j \in 1..Len(NodesOf(content)) :
            i # j => Get(NodesOf(content)[i], "id") # Get(NodesOf(content)[j], "id")

\* the nodes of c whose effective step kind is in the known vocabulary
KnownNodes(c) ==
    {i \in 1..Len(NodesOf(c)) : SetHas(validModuleTypes, EffectiveKind(NodesOf(c)[i]))}

\* the nodes of c whose effective step kind is neither known nor a wrapper kind
UnknownNodes(c) ==
    {i \in 1..Len(NodesOf(c)) :
        /\ ~SetHas(validModuleTypes, EffectiveKind(NodesOf(c)[i]))
        /\ ~SetHas(validReactFlowTypes, EffectiveKind(NodesOf(c)[i]))}

\* the distinct unknown kinds of c, as the first node of each
DistinctUnknown(c) ==
    {i \in UnknownNodes(c) :
        \A j \in UnknownNodes(c) :
            j < i => ~SameValueZero(EffectiveKind(NodesOf(c)[j]), EffectiveKind(NodesOf(c)[i]))}

\* the checks before the vocabulary verdict pass: the document has 1..500 nodes,
\* each well formed
ReachesVocabulary(c) ==
    /\ IsDocument(c)
    /\ Len(NodesOf(c)) \in 1..MaxNodeCount
    /\ ~CheckNodes(NodesOf(c), 1, 0, <<>>).returned

\* C9: a document is accepted only if some node's effective step kind is known
\* and none is outside both the vocabulary and the wrapper set; with no known
\* kind the error is the "not a workflow of this system" one, otherwise the
\* error names the unknown kinds, or counts them when more than 3 are distinct.
VocabularyVerdict ==
    op.name = "validate" =>
        /\ verdict.valid => (KnownNodes(content) # {} /\ UnknownNodes(content) = {})
        /\ (ReachesVocabulary(content) /\ KnownNodes(content) = {}) =>
               verdict = Reject("not a Web RPA workflow: no valid module type", <<>>)
        /\ (ReachesVocabulary(content) /\ KnownNodes(content) # {}
                /\ UnknownNodes(content) # {}) =>
               IF Cardinality(DistinctUnknown(content)) > MaxNamedTypes
               THEN verdict = Reject("N unsupported module types: maybe not a Web RPA workflow",
                                     <<NumText(Cardinality(DistinctUnknown(content)))>>)
               ELSE ~verdict.threw /\ verdict.msg = "unsupported module types: LIST"

\* the same statement for documents whose unknown kinds are all strings
VocabularyVerdictOfStrings ==
    (\A i \in UnknownNodes(content) : IsString(EffectiveKind(NodesOf(content)[i])))
        => VocabularyVerdict

\* an endpoint that names an id no node has
Dangling(c, end) == IsString(end) /\ end.s # "" /\ end.s \notin IdsOf(c)

EdgeDangles(c, i) ==
    \/ Dangling(c, Get(EdgesOf(c)[i], "source"))
    \/ Dangling(c, Get(EdgesOf(c)[i], "target"))

\* both endpoints of edge i are non-empty strings naming a node
EdgeResolves(c, i) ==
    \A end \in {Get(EdgesOf(c)[i], "source"), Get(EdgesOf(c)[i], "target")} :
        IsString(end) /\ end.s # "" /\ end.s \in IdsOf(c)

ReachesEdges(c) ==
    /\ ReachesVocabulary(c)
    /\ KnownNodes(c) # {}
    /\ UnknownNodes(c) = {}

\* edge i is the first edge that does not resolve
FirstBadEdge(c, i) ==
    /\ ~EdgeResolves(c, i)
    /\ \A j \in 1..(i - 1) : EdgeResolves(c, j)

NodesPass(c) ==
    \A i \in 1..Len(NodesOf(c)) : ~NodeVerdict(NodesOf(c)[i], i).returned

\* variables is absent, or an array of objects with a name
VariablesPass(c) ==
    \/ Get(c, "variables").k = "undefined"
    \/ IsArray(Get(c, "variables")) /\ ~CheckVariables(Elems(Get(c, "variables")), 1).returned

\* c passes every check but, possibly, the one on the number of nodes
OtherwiseValid(c) ==
    /\ IsDocument(c)
    /\ NodesPass(c)
    /\ KnownNodes(c) # {}
    /\ UnknownNodes(c) = {}
    /\ \A i \in 1..Len(EdgesOf(c)) : EdgeResolves(c, i)
    /\ VariablesPass(c)
    /\ Len(Stringify(c)) <= MaxTotalSize

\* C11: a document with no node or with more than 500 nodes is rejected; an
\* accepted document has between 1 and 500 nodes and its nodeCount is their
\* number; a document of 1 to 500 nodes that passes every other check is accepted.
NodeCountBounds ==
    op.name = "validate" =>
        /\ (IsDocument(content) /\ Len(NodesOf(content)) \notin 1..MaxNodeCount) =>
               (~verdict.valid /\ ~verdict.threw)
        /\ verdict.valid =>
               (/\ Len(NodesOf(content)) \in 1..MaxNodeCount
                /\ verdict.nodeCount = Len(NodesOf(content)))
        /\ (OtherwiseValid(content) /\ Len(NodesOf(content)) \in 1..MaxNodeCount) =>
               verdict = Accept(Len(NodesOf(content)))

\* a document of exactly 500 nodes was accepted
AtNodeLimit ==
    /\ op.name = "validate"
    /\ Len(NodesOf(content)) = MaxNodeCount
    /\ verdict = Accept(MaxNodeCount)

\* a document of 501 nodes was rejected
OverNodeLimit ==
    /\ op.name = "validate"
    /\ Len(NodesOf(content)) = MaxNodeCount + 1
    /\ verdict = Reject("no more than 500 nodes", <<>>)

\* the characters of node's serialized data: JSON.stringify(node.data || {})
DataLength(node) == Len(Stringify(OrElse(Get(node, "data"), Obj(<<>>))))

\* the nodes of c, objects, whose serialized data is over the limit
OversizedNodes(c) ==
    {i \in 1..Len(NodesOf(c)) :
        /\ Truthy(NodesOf(c)[i]) /\ TypeofObject(NodesOf(c)[i])
        /\ DataLength(NodesOf(c)[i]) > MaxNodeDataLength}

\* C12: a document with a node whose serialized data is longer than 50 000
\* characters, or whose own serialization is longer than 500 000 characters, is
\* rejected whatever else it holds; the data-size reason is given only when
\* some node's data is longer than 50 000 characters.
SizeLimits ==
    op.name = "validate" =>
        /\ OversizedNodes(content) # {} => (~verdict.valid /\ ~verdict.threw)
        /\ Len(Stringify(content)) > MaxTotalSize => (~verdict.valid /\ ~verdict.threw)
        /\ verdict.msg = "node ID: data too large (over 50KB)" => OversizedNodes(content) # {}

\* the same statement for documents whose unknown kinds are all strings
SizeLimitsOfStrings ==
    (\A i \in UnknownNodes(content) : IsString(EffectiveKind(NodesOf(content)[i])))
        => SizeLimits

\* a document with a node of exactly 50 000 characters of data was accepted
AtDataLimit ==
    /\ op.name = "validate"
    /\ verdict.valid
    /\ \E i \in 1..Len(NodesOf(content)) : DataLength(NodesOf(content)[i]) = MaxNodeDataLength

\* a document of exactly 500 000 characters was accepted
AtTotalLimit ==
    /\ op.name = "validate"
    /\ verdict.valid
    /\ Len(Stringify(content)) = MaxTotalSize

\* the first of the eight checks that c fails, 0 when it passes them all:
\* (1) object shape, (2) nodes and edges present and arrays, (3) node count,
\* (4) node loop, (5) vocabulary, (6) edge loop, (7) variables, (8) total size
FailingCheck(c) ==
    IF Falsy(c) \/ ~TypeofObject(c) \/ IsArray(c) THEN 1
    ELSE IF ~HasKey(c, "nodes") \/ ~HasKey(c, "edges")
            \/ ~IsArray(Get(c, "nodes")) \/ ~IsArray(Get(c, "edges")) THEN 2
    ELSE IF Len(NodesOf(c)) \notin 1..MaxNodeCount THEN 3
    ELSE IF ~NodesPass(c) THEN 4
    ELSE IF KnownNodes(c) = {} \/ UnknownNodes(c) # {} THEN 5
    ELSE IF \E i \in 1..Len(EdgesOf(c)) : ~EdgeResolves(c, i) THEN 6
    ELSE IF ~VariablesPass(c) THEN 7
    ELSE IF Len(Stringify(c)) > MaxTotalSize THEN 8
    ELSE 0

\* the check each reason belongs to
CheckOf(msg) ==
    CASE msg \in {"invalid JSON format", "workflow must be an object, not an array"} -> 1
      [] msg \in {"no nodes field", "no edges field", "nodes must be an array",
                  "edges must be an array"} -> 2
      [] msg \in {"at least one node is needed", "no more than 500 nodes"} -> 3
      [] msg \in {"node #N: invalid format", "node #N: no valid id field",
                  "node ID: no module type", "node ID: invalid position",
                  "node ID: data too large (over 50KB)"} -> 4
      [] msg \in {"not a Web RPA workflow: no valid module type",
                  "N unsupported module types: maybe not a Web RPA workflow",
                  "unsupported module types: LIST"} -> 5
      [] msg \in {"edge #N: invalid format", "edge #N: no valid source field",
                  "edge #N: no valid target field", "edge names a missing source node: ID",
                  "edge names a missing target node: ID"} -> 6
      [] msg \in {"variables must be an array", "variable #N: invalid format",
                  "variable #N: no valid name field"} -> 7
      [] msg = "workflow too large (over 500KB)" -> 8
      [] OTHER -> 0

\* C13: the reason returned is that of the first failing check in the order
\* (1) object shape, (2) nodes / edges present and arrays, (3) node count,
\* (4) per-node structure, (5) vocabulary, (6) edges, (7) variables, (8) total
\* size; a document that fails none is accepted.
CheckOrder ==
    op.name = "validate" =>
        IF FailingCheck(content) = 0 THEN verdict.valid
        ELSE /\ ~verdict.threw
             /\ ~verdict.valid
             /\ CheckOf(verdict.msg) = FailingCheck(content)

\* the same statement for documents whose unknown kinds are all strings
CheckOrderOfStrings ==
    (\A i \in UnknownNodes(content) : IsString(EffectiveKind(NodesOf(content)[i])))
        => CheckOrder

\* a document with an unknown kind and a dangling edge got the vocabulary reason
VocabularyBeforeEdges ==
    /\ op.name = "validate"
    /\ UnknownNodes(content) # {}
    /\ \E i \in 1..Len(EdgesOf(content)) : EdgeDangles(content, i)
    /\ CheckOf(verdict.msg) = 5

\* a document with a node without id after a node of unknown kind got the
\* node-structure reason
StructureBeforeVocabulary ==
    /\ op.name = "validate"
    /\ \E i \in UnknownNodes(content) : IsString(Get(NodesOf(content)[i], "id"))
    /\ verdict = Reject("node #N: no valid id field", <<"2">>)

-----------------------------------------------------------------------------
(* Edits of a document, and the hash before and after *)

\* o with o[key] = v: the entry replaced in place, or appended
SetKey(o, key, v) ==
    IF HasKey(o, key)
    THEN Obj([i \in 1..Len(o.m) |-> IF o.m[i][1] = key THEN <<key, v>> ELSE o.m[i]])
    ELSE Obj(Append(o.m, <<key, v>>))

\* the list with element i replaced
SetAt(list, i, v) == [j \in 1..Len(list) |-> IF j = i THEN v ELSE list[j]]

\* the list without element i
RemoveAt(list, i) == SubSeq(list, 1, i - 1) \o SubSeq(list, i + 1, Len(list))

WithNodes(c, nodes) == SetKey(c, "nodes", Arr(nodes))
WithEdges(c, edges) == SetKey(c, "edges", Arr(edges))

Orderings(n) == {f \in [1..n -> 1..n] : \A i, j \in 1..n : f[i] = f[j] => i = j}

Permuted(list, f) == [i \in 1..Len(list) |-> list[f[i]]]

\* the (type, data, config) of the nodes the hash is taken of: flat and wrapped
\* nodes, falsy and non-string types of wrapped nodes, cosmetic and empty data
\* values, the legacy config mapping
HashNodeShapes ==
    {<<Str("wait"), Undef, Undef>>,
     <<Str("loop"), Undef, Undef>>,
     <<Str("wait"), Obj(<< <<"ms", Str("1")>>, <<"url", Str("x")>> >>), Undef>>,
     <<Str("wait"), Obj(<< <<"label", Str("l")>>, <<"ms", Str("1")>> >>), Undef>>,
     <<Str("wait"), Obj(<< <<"ms", Null>> >>), Undef>>,
     <<Str("moduleNode"), Obj(<< <<"moduleType", Str("wait")>> >>), Undef>>,
     <<Undef, Obj(<< <<"moduleType", Str("wait")>> >>), Undef>>,
     <<Str(""), Obj(<< <<"moduleType", Str("wait")>> >>), Undef>>,
     <<Num("5"), Obj(<< <<"moduleType", Str("wait")>> >>), Undef>>,
     <<Str("wait"), Obj(<< <<"__proto__", Str("1")>>, <<"ms", Str("1")>> >>), Undef>>,
     <<Str("wait"), Undef, Obj(<< <<"ms", Str("1")>>, <<"name", Str("l")>> >>)>>}

ShapedNode(id, shape) ==
    ObjOf(<< <<"id", Str(id)>>, <<"type", shape[1]>>, <<"data", shape[2]>>,
             <<"config", shape[3]>> >>)

\* the shapes a node of any shape is put next to: a wrapped node without type,
\* a flat node with settings
CoreShapes ==
    {<<Undef, Obj(<< <<"moduleType", Str("wait")>> >>), Undef>>,
     <<Str("wait"), Obj(<< <<"ms", Str("1")>>, <<"url", Str("x")>> >>), Undef>>}

ShapeLists ==
    UNION {{[shapes EXCEPT ![i] = v] : shapes \in [1..k -> CoreShapes], i \in 1..k,
                                        v \in HashNodeShapes} : k \in 1..MaxNodes}

\* documents without edges: a node of every shape at every place, ids distinct
\* or all the same
ShapeInputs ==
    {Doc([i \in 1..Len(shapes) |-> ShapedNode(IF same THEN "a" ELSE NodeIdPool[i], shapes[i])],
         <<>>, Undef) :
        shapes \in ShapeLists, same \in BOOLEAN}

\* node lists for documents with edges: flat, wrapped, mixed, and two nodes of one id
LinkedNodes ==
    {<<ShapedNode("a", <<Str("wait"), Undef, Undef>>),
       ShapedNode("b", <<Str("loop"), Undef, Undef>>),
       ShapedNode("c", <<Str("note"), Undef, Undef>>)>>,
     <<ShapedNode("a", <<Str("moduleNode"), Obj(<< <<"moduleType", Str("wait")>> >>), Undef>>),
       ShapedNode("b", <<Str("moduleNode"), Obj(<< <<"moduleType", Str("loop")>> >>), Undef>>),
       ShapedNode("c", <<Str("moduleNode"), Obj(<< <<"moduleType", Str("note")>> >>), Undef>>)>>,
     <<ShapedNode("a", <<Str("moduleNode"), Obj(<< <<"moduleType", Str("wait")>> >>), Undef>>),
       ShapedNode("b", <<Str("wait"), Undef, Undef>>)>>,
     <<ShapedNode("a", <<Str("wait"), Undef, Undef>>),
       ShapedNode("a", <<Str("loop"), Undef, Undef>>)>>}

\* the edges between them: from each node to the next one, and from the first
\* node to itself, without and with a handle
LinkValues(nodes) ==
    {Edge(Get(nodes[i], "id"), Get(nodes[(i % Len(nodes)) + 1], "id"), Undef) :
        i \in 1..Len(nodes)}
    \cup {Edge(Get(nodes[1], "id"), Get(nodes[1], "id"), h) : h \in {Undef, Str("h")}}

LinkedInputs ==
    UNION {{Doc(nodes, edges, Undef) : edges \in SeqsUpTo(LinkValues(nodes), MaxLinks)} :
              nodes \in LinkedNodes}

HashInputs == ShapeInputs \cup LinkedInputs

InitHash ==
    /\ content \in HashInputs
    /\ before = content
    /\ op = Step("input", 0, "")
    /\ verdict = validateWorkflowContent(content)
    /\ hashed = NoHash
    /\ request = NoRequest
    /\ workflows = {}
    /\ download_logs = {}
    /\ reports = {}
    /\ response = NoResponse

\* an edit of content: before keeps the document of the first edit
Edited(name, i, key, c) ==
    /\ content' = c
    /\ c # content
    /\ before' = before
    /\ op' = Step(name, i, key)
    /\ UNCHANGED <<verdict, hashed, request, workflows, download_logs, reports, response>>

\* a write of the sorted canonical nodes to content.nodes
AfterHashInPlace(c) ==
    IF normalizeWorkflowForHash(c).threw THEN c
    ELSE WithNodes(c, Elems(Get(normalizeWorkflowForHash(c).value, "nodes")))

\* the document after calculateWorkflowHash(c) returned or threw: sort orders its
\* receiver in place, and the receivers are the arrays map returned, not
\* content.nodes and content.edges; normalizeNodeData writes to a new object
AfterHash(c) == c

\* one call of calculateWorkflowHash(content), on a document the validator accepted
Hash ==
    /\ op.name = "input"
    /\ verdict.valid
    /\ hashed' = calculateWorkflowHash(content)
    /\ content' = AfterHash(content)
    /\ op' = Step("hash", 0, "")
    /\ UNCHANGED <<before, verdict, request, workflows, download_logs, reports, response>>

\* the nodes array and the edges array are reordered
Shuffle ==
    /\ op.name = "input"
    /\ \E f \in Orderings(Len(NodesOf(content))), g \in Orderings(Len(EdgesOf(content))) :
          Edited("shuffle", 0, "",
                 WithEdges(WithNodes(content, Permuted(NodesOf(content), f)),
                           Permuted(EdgesOf(content), g)))

FreshIds == <<"p", "q", "r", "s">>

\* the index of the node an id names: the first node bearing it
NodeNamed(c, id) ==
    CHOOSE i \in 1..Len(NodesOf(c)) :
        /\ Get(NodesOf(c)[i], "id") = id
        /\ \A j \in 1..(i - 1) : Get(NodesOf(c)[j], "id") # id

\* every node gets a fresh id of its own; the edges follow the nodes they name
RenameIds ==
    /\ op.name = "input"
    /\ \E f \in Orderings(Len(NodesOf(content))) :
          LET fresh(i) == Str(FreshIds[f[i]])
              Renamed(e, end) == SetKey(e, end, fresh(NodeNamed(content, Get(e, end))))
          IN  Edited("rename", 0, "",
                  WithEdges(
                      WithNodes(content, [i \in 1..Len(NodesOf(content)) |->
                                            SetKey(NodesOf(content)[i], "id", fresh(i))]),
                      [j \in 1..Len(EdgesOf(content)) |->
                          Renamed(Renamed(EdgesOf(content)[j], "source"), "target")]))

CosmeticKeys == {"label", "name", "description", "position"}

CosmeticValues == {Str("z"), Null}

\* the mapping of a node the hash reads: data, else config
SettingsKey(node) == IF Truthy(Get(node, "data")) THEN "data" ELSE "config"

\* the position of a node, or a label / name / description / position entry its
\* settings mapping holds, gets another value
ChangeCosmetic ==
    /\ op.name \in {"input", "rename"}
    /\ \E i \in 1..Len(NodesOf(content)) :
          LET node == NodesOf(content)[i]
              settings == Get(node, SettingsKey(node))
          IN  \/ Edited("cosmetic", i, "position",
                        WithNodes(content, SetAt(NodesOf(content), i,
                            SetKey(node, "position", Obj(<< <<"x", Num("5")>> >>)))))
              \/ \E key \in CosmeticKeys, v \in CosmeticValues :
                    /\ HasKey(settings, key)
                    /\ Edited("cosmetic", i, key,
                              WithNodes(content, SetAt(NodesOf(content), i,
                                  SetKey(node, SettingsKey(node), SetKey(settings, key, v)))))

KnownKinds == {Str("wait"), Str("loop"), Str("note")}

\* one node gets another effective step kind: in data.moduleType when it has
\* one, else in type
ChangeKind ==
    /\ op.name = "input"
    /\ \E i \in 1..Len(NodesOf(content)), kind \in KnownKinds :
          LET node == NodesOf(content)[i]
          IN  /\ kind # EffectiveKind(node)
              /\ Edited("kind", i, "",
                     WithNodes(content, SetAt(NodesOf(content), i,
                         IF Truthy(Get(Get(node, "data"), "moduleType"))
                         THEN SetKey(node, "data", SetKey(Get(node, "data"), "moduleType", kind))
                         ELSE SetKey(node, "type", kind))))

\* one edge between two nodes is added, or one edge is removed
ChangeEdges ==
    /\ op.name = "input"
    /\ \/ \E e \in LinkValues(NodesOf(content)), i \in 1..(Len(EdgesOf(content)) + 1) :
             /\ Len(EdgesOf(content)) <= MaxLinks
             /\ Edited("edge", i, "add",
                       WithEdges(content, SubSeq(EdgesOf(content), 1, i - 1) \o <<e>>
                                   \o SubSeq(EdgesOf(content), i, Len(EdgesOf(content)))))
       \/ \E i \in 1..Len(EdgesOf(content)) :
             Edited("edge", i, "remove", WithEdges(content, RemoveAt(EdgesOf(content), i)))

DataValues == {Str("1"), Str("2"), Str(""), Null}

\* one non-cosmetic entry of one node's data gets another value
ChangeData ==
    /\ op.name = "input"
    /\ \E i \in 1..Len(NodesOf(content)), v \in DataValues :
          LET node == NodesOf(content)[i]
              data == Get(node, "data")
          IN  \E k \in 1..Len(data.m) :
                 /\ data.k = "object"
                 /\ data.m[k][1] \notin ignoreKeys
                 /\ data.m[k][2] # v
                 /\ Edited("data", i, data.m[k][1],
                        WithNodes(content, SetAt(NodesOf(content), i,
                            SetKey(node, "data", SetKey(data, data.m[k][1], v)))))

\* one end of one edge is pointed at a node of another effective step kind
RepointEdge ==
    /\ op.name = "input"
    /\ \E j \in 1..Len(EdgesOf(content)), end \in {"source", "target"},
          i \in 1..Len(NodesOf(content)) :
          LET edge == EdgesOf(content)[j]
              old == NodesOf(content)[NodeNamed(content, Get(edge, end))]
              new == NodesOf(content)[i]
          IN  /\ NodeNamed(content, Get(new, "id")) = i
              /\ EffectiveKind(new) # EffectiveKind(old)
              /\ Edited("repoint", j, end,
                     WithEdges(content, SetAt(EdgesOf(content), j,
                                              SetKey(edge, end, Get(new, "id")))))

\* the entries of one node's data, or of one edge, are put in another order
ReorderKeys ==
    /\ op.name = "input"
    /\ \/ \E i \in 1..Len(NodesOf(content)) :
             LET node == NodesOf(content)[i]
                 data == Get(node, "data")
             IN  /\ data.k = "object"
                 /\ \E f \in Orderings(Len(data.m)) :
                       Edited("keys", i, "data",
                              WithNodes(content, SetAt(NodesOf(content), i,
                                  SetKey(node, "data", Obj(Permuted(data.m, f))))))
       \/ \E j \in 1..Len(EdgesOf(content)) :
             \E f \in Orderings(Len(EdgesOf(content)[j].m)) :
                Edited("keys", j, "edge",
                       WithEdges(content, SetAt(EdgesOf(content), j,
                                                Obj(Permuted(EdgesOf(content)[j].m, f)))))

NextHash ==
    \/ Validate
    \/ Hash
    \/ Shuffle
    \/ RenameIds
    \/ ChangeCosmetic
    \/ ChangeKind
    \/ ChangeEdges
    \/ ChangeData
    \/ RepointEdge
    \/ ReorderKeys

SpecHash == InitHash /\ [][NextHash]_vars

-----------------------------------------------------------------------------
(* Properties of calculateWorkflowHash *)

\* verdict is that of validateWorkflowContent on the document before the edits

\* the entry the last "data" step changed, before and after it
OldValue == Get(Get(NodesOf(before)[op.i], "data"), op.key)
NewValue == Get(Get(NodesOf(content)[op.i], "data"), op.key)

\* a value normalizeNodeData drops
Empty(v) == v.k \in {"undefined", "null"} \/ (v.k = "string" /\ v.s = "")

\* C1: for every accepted document, any reordering of its nodes array and of its
\* edges array gives the same digest.
ShuffleKeepsDigest ==
    (op.name = "shuffle" /\ verdict.valid) =>
        calculateWorkflowHash(content) = calculateWorkflowHash(before)

\* C2: for every accepted document, giving every node a fresh id of its own
\* (the edges following) and / or changing node position and the label, name,
\* description fields leaves the digest unchanged.
CosmeticKeepsDigest ==
    (op.name \in {"rename", "cosmetic"} /\ verdict.valid) =>
        calculateWorkflowHash(content) = calculateWorkflowHash(before)

\* an accepted document was renamed and then relabelled, and both hashes exist
RenamedAndRelabelled ==
    /\ op.name = "cosmetic"
    /\ op.key = "position"
    /\ verdict.valid
    /\ Get(NodesOf(content)[1], "id") = Str("q")
    /\ Len(EdgesOf(content)) > 0
    /\ ~calculateWorkflowHash(before).threw

\* C3: for every accepted document, changing one node's effective step
\* kind, adding or removing one edge, or changing the value of one non-cosmetic
\* key of a node's data gives a different canonical form.
EditChangesDigest ==
    (op.name \in {"kind", "edge", "data"} /\ verdict.valid) =>
        calculateWorkflowHash(content) # calculateWorkflowHash(before)

\* the same statement where both hashes exist, for the changes of a data value
\* other than from one of null and '' to the other and of a key other than
\* "__proto__"
NonEmptyEditChangesDigest ==
    (/\ op.name \in {"kind", "edge", "data"}
     /\ verdict.valid
     /\ ~calculateWorkflowHash(before).threw
     /\ ~calculateWorkflowHash(content).threw
     /\ op.name = "data" => (op.key # "__proto__" /\ ~(Empty(OldValue) /\ Empty(NewValue)))) =>
        calculateWorkflowHash(content) # calculateWorkflowHash(before)

\* a data value of an accepted document was changed to another non-empty value
DataValueChanged ==
    /\ op.name = "data"
    /\ verdict.valid
    /\ ~Empty(OldValue)
    /\ ~Empty(NewValue)

\* C4: in any accepted document, wrapped or flat, pointing an edge at a node of
\* another effective step kind changes the digest.
RepointChangesDigest ==
    (op.name = "repoint" /\ verdict.valid) =>
        calculateWorkflowHash(content) # calculateWorkflowHash(before)

\* C5: two accepted documents that differ only in the order of the keys of a
\* node's data mapping, or of an edge object, have the same digest.
KeyOrderKeepsDigest ==
    (op.name = "keys" /\ verdict.valid) =>
        calculateWorkflowHash(content) = calculateWorkflowHash(before)

HashTotal ==
    op.name = "hash" => ~hashed.threw

\* the same statement for documents whose nodes' types are absent or strings
HashTotalOfStrings ==
    (\A i \in 1..Len(NodesOf(content)) :
        Get(NodesOf(content)[i], "type").k \in {"undefined", "string"}) => HashTotal

\* the hash was taken of a document with a wrapped node without type
HashedWithoutType ==
    /\ op.name = "hash"
    /\ ~hashed.threw
    /\ \E i \in 1..Len(NodesOf(content)) : Get(NodesOf(content)[i], "type").k = "undefined"

\* the mapping a node's settings are read from: data, config when data is absent
SettingsOf(node) ==
    IF HasKey(node, "data") THEN Get(node, "data")
    ELSE IF HasKey(node, "config") THEN Get(node, "config")
    ELSE Obj(<<>>)

\* the entries of mapping m but those of a cosmetic key or an empty value
Restricted(m) ==
    {m.m[i] : i \in {j \in 1..Len(m.m) : m.m[j][1] \notin ignoreKeys /\ ~Empty(m.m[j][2])}}

EntriesOf(m) == {m.m[i] : i \in 1..Len(m.m)}

\* C17: each canonical node's data is exactly the node's data mapping (its config
\* mapping when data is absent) restricted to the keys that are not in {label,
\* name, description, x, y, position, id} and whose value is not undefined, null
\* or the empty string; the canonical node carries no id.
CanonicalDataRestricted ==
    \A i \in 1..Len(NodesOf(content)) :
        SettingsOf(NodesOf(content)[i]).k = "object" =>
            /\ EntriesOf(Get(CanonicalNode(NodesOf(content)[i]), "data"))
                    = Restricted(SettingsOf(NodesOf(content)[i]))
            /\ ~HasKey(CanonicalNode(NodesOf(content)[i]), "id")

\* the same statement for the mappings without a key "__proto__"
CanonicalDataRestrictedOfPlainKeys ==
    (\A i \in 1..Len(NodesOf(content)) :
        ~HasKey(SettingsOf(NodesOf(content)[i]), "__proto__")) => CanonicalDataRestricted

\* the hash was taken of a document with cosmetic and empty entries in its data
\* and of one whose settings are its config
HashedWithDroppedEntries ==
    /\ op.name = "hash"
    /\ ~hashed.threw
    /\ \E i \in 1..Len(NodesOf(content)) :
          LET m == SettingsOf(NodesOf(content)[i])
          IN  m.k = "object" /\ Restricted(m) # {} /\ Restricted(m) # EntriesOf(m)

-----------------------------------------------------------------------------
(* The workflow store: publish, update and delete requests *)

MaxWorkflows == 2      \* ids uuidv4 can give, so rows of table workflows

WorkflowIds == {"w" \o ToString(i) : i \in 1..MaxWorkflows}

\* names as submitted: with markup on publish, plain on update
Names == {"<b>n2"}

NewNames == {"n1"}

\* xss(text, xssOptions): the white list is empty and stripIgnoreTag is set, so
\* every tag is removed
xss(t) == IF t = "<b>n2" THEN "n2" ELSE t

ClientIds == {Str("client-0000000001"), Str("client-0000000002")}

\* the clientId of a publish request: absent, or that of the first client
PublisherIds == {Undef, Str("client-0000000001")}

\* the addresses requests come from (getClientIP), all within one hour
ClientIPs == {"ip1"}

MaxReports == 1        \* rows of table reports

\* the contents requests carry: two documents of one digest, one the validator
\* rejects, one whose hash cannot be computed, and one of another digest, whose
\* node data holds the number the literal 1e999 decodes to
StoreContents ==
    {Doc(<<Node(Str("a"), Str("wait"), Undef, Undef)>>, <<>>, Undef),
     Doc(<<Node(Str("b"), Str("wait"), Undef, Obj(<< <<"x", Num("5")>> >>))>>, <<>>, Undef),
     Doc(<<>>, <<>>, Undef),
     Doc(<<Node(Str("a"), Num("5"), Obj(<< <<"moduleType", Str("wait")>> >>), Undef),
           Node(Str("b"), Num("5"), Obj(<< <<"moduleType", Str("wait")>> >>), Undef)>>,
         <<>>, Undef),
     Doc(<<Node(Str("a"), Str("wait"), Obj(<< <<"ms", Num("Infinity")>> >>), Undef)>>,
         <<>>, Undef)}

\* validateWorkflowContent and calculateWorkflowHash of each of these contents:
\* both are pure, so a request's result is the entry of its content
Validations == [c \in {Undef} \cup StoreContents |-> validateWorkflowContent(c)]

Hashes ==
    [c \in {Undef} \cup StoreContents |->
        IF c.k = "undefined" THEN NoHash ELSE calculateWorkflowHash(sanitizeWorkflow(c))]

\* JSON.parse of each text a row's content can hold
Parsed == [t \in {Stringify(sanitizeWorkflow(c)) : c \in StoreContents} |-> JSONparse(t)]

Respond(status) == [status |-> status, existingId |-> "", existingName |-> "", content |-> Undef]

Conflict(row) ==
    [status |-> 409, existingId |-> row.id, existingName |-> row.name, content |-> Undef]

\* res.json({..., content: JSON.parse(workflow.content)})
Deliver(workflow) == [Respond(200) EXCEPT !.content = Parsed[workflow.content]]

\* a lookup that never finds a row: the table's UNIQUE constraint is all that is left
FindByHashNone(rows, hash, exceptId) == {}

\* SELECT ... FROM workflows WHERE hash = ? AND id != ?  (.get: one row, if any)
FindByHash(rows, hash, exceptId) == {r \in rows : r.hash = hash /\ r.id # exceptId}

\* SELECT ... FROM workflows WHERE id = ? AND is_active = 1
FindById(rows, id) == {r \in rows : r.id = id}

\* id is PRIMARY KEY and hash is UNIQUE: a statement that would break either fails
Consistent(rows) ==
    \A r1, r2 \in rows : r1 # r2 => (r1.id # r2.id /\ r1.hash # r2.hash)

\* a check that lets every client through to a workflow published without clientId
NotPublisherUnlessAnonymous(workflow, clientId) ==
    Truthy(workflow.client_id) /\ workflow.client_id # clientId

\* !workflow.client_id || workflow.client_id !== clientId
NotPublisher(workflow, clientId) ==
    Falsy(workflow.client_id) \/ workflow.client_id # clientId

InitStore ==
    /\ hashed = NoHash
    /\ request = NoRequest
    /\ workflows = {}
    /\ download_logs = {}
    /\ reports = {}
    /\ content = Undef
    /\ before = Null
    /\ op = Step("input", 0, "")
    /\ verdict = NoVerdict
    /\ response = NoResponse

\* the handler of POST /api/workflows: validation and hash are the results of
\* validateWorkflowContent(content) and calculateWorkflowHash(sanitizedContent)
PublishHandler(name, c, clientId, id, validation, hash) ==
        LET sanitizedContent == sanitizeWorkflow(c)
            existing == FindByHash(workflows, hash.digest, "")
            row == [id |-> id, hash |-> hash.digest, name |-> xss(name),
                    content |-> Stringify(sanitizedContent),
                    node_count |-> Len(NodesOf(sanitizedContent)),
                    download_count |-> 0,
                    client_id |-> OrElse(clientId, Null)]
        IN  /\ FindById(workflows, id) = {}
            /\ content' = c
            /\ verdict' = validation
            /\ op' = Step("publish", 0, "")
            /\ request' = [clientId |-> clientId, name |-> name]
            /\ hashed' = IF validation.threw \/ ~validation.valid THEN NoHash ELSE hash
            /\ before' = before
            /\ UNCHANGED <<download_logs, reports>>
            /\ IF validation.threw
               THEN response' = Respond(500) /\ workflows' = workflows
               ELSE IF ~validation.valid
               THEN response' = Respond(400) /\ workflows' = workflows
               ELSE IF hash.threw
               THEN response' = Respond(500) /\ workflows' = workflows
               ELSE IF existing # {}
               THEN /\ \E r \in existing : response' = Conflict(r)
                    /\ workflows' = workflows
               ELSE IF ~Consistent(workflows \cup {row})
               THEN response' = Respond(500) /\ workflows' = workflows
               ELSE response' = Respond(201) /\ workflows' = workflows \cup {row}

\* POST /api/workflows with a body that passes the field validators; uuidv4()
\* gives an id no row has: ids are interchangeable, so it is the first such one
Publish ==
    \E name \in Names, c \in StoreContents, clientId \in PublisherIds, i \in 1..MaxWorkflows :
        /\ \A j \in 1..(i - 1) : FindById(workflows, "w" \o ToString(j)) # {}
        /\ PublishHandler(name, c, clientId, "w" \o ToString(i), Validations[c], Hashes[c])

\* an update that writes the name before it validates the content
UpdateFieldsFirst ==
    \E workflowId \in WorkflowIds, clientId \in ClientIds, name \in NewNames, c \in StoreContents :
        LET found == FindById(workflows, workflowId)
            workflow == CHOOSE r \in found : TRUE
        IN  /\ found # {}
            /\ ~NotPublisher(workflow, clientId)
            /\ ~Validations[c].threw
            /\ ~Validations[c].valid
            /\ content' = c
            /\ verdict' = Validations[c]
            /\ hashed' = NoHash
            /\ op' = Step("update", 0, workflowId)
            /\ request' = [clientId |-> clientId, name |-> name]
            /\ response' = Respond(400)
            /\ workflows' = (workflows \ {workflow}) \cup {[workflow EXCEPT !.name = xss(name)]}
            /\ UNCHANGED <<before, download_logs, reports>>

\* the handler of PUT /api/workflows/:id: validation and newHash are the results
\* of validateWorkflowContent(content) and calculateWorkflowHash(sanitizedContent)
UpdateHandler(workflowId, clientId, name, c, validation, newHash) ==
        LET found == FindById(workflows, workflowId)
            workflow == CHOOSE r \in found : TRUE
            sanitizedContent == sanitizeWorkflow(c)
            existing == FindByHash(workflows, newHash.digest, workflowId)
            named == IF name # "" THEN [workflow EXCEPT !.name = xss(name)] ELSE workflow
            updated == IF c.k # "undefined"
                       THEN [named EXCEPT !.content = Stringify(sanitizedContent),
                                          !.hash = newHash.digest,
                                          !.node_count = Len(NodesOf(sanitizedContent))]
                       ELSE named
            rows == (workflows \ {workflow}) \cup {updated}
        IN  /\ content' = c
            /\ op' = Step("update", 0, workflowId)
            /\ request' = [clientId |-> clientId, name |-> name]
            /\ hashed' = IF found = {} \/ NotPublisher(workflow, clientId) \/ c.k = "undefined"
                             \/ validation.threw \/ ~validation.valid
                          THEN NoHash ELSE newHash
            /\ before' = before
            /\ UNCHANGED <<download_logs, reports>>
            /\ IF found = {}
               THEN response' = Respond(404) /\ workflows' = workflows /\ verdict' = NoVerdict
               ELSE IF NotPublisher(workflow, clientId)
               THEN response' = Respond(403) /\ workflows' = workflows /\ verdict' = NoVerdict
               ELSE IF c.k = "undefined"
               THEN /\ verdict' = NoVerdict
                    /\ IF name = ""
                       THEN response' = Respond(400) /\ workflows' = workflows
                       ELSE response' = Respond(200) /\ workflows' = rows
               ELSE /\ verdict' = validation
                    /\ IF validation.threw
                       THEN response' = Respond(500) /\ workflows' = workflows
                       ELSE IF ~validation.valid
                       THEN response' = Respond(400) /\ workflows' = workflows
                       ELSE IF newHash.threw
                       THEN response' = Respond(500) /\ workflows' = workflows
                       ELSE IF existing # {}
                       THEN /\ \E r \in existing : response' = Conflict(r)
                            /\ workflows' = workflows
                       ELSE IF ~Consistent(rows)
                       THEN response' = Respond(500) /\ workflows' = workflows
                       ELSE response' = Respond(200) /\ workflows' = rows

\* PUT /api/workflows/:id with a body that passes the field validators; the
\* handler answers 404 and 403 before it uses name or content, so one body, a
\* new name and no content, stands for all the bodies of such a request
Update ==
    \E workflowId \in WorkflowIds, clientId \in ClientIds, name \in {""} \cup NewNames,
       c \in {Undef} \cup StoreContents :
        /\ (\A r \in FindById(workflows, workflowId) : NotPublisher(r, clientId))
               => (name # "" /\ c = Undef)
        /\ UpdateHandler(workflowId, clientId, name, c, Validations[c], Hashes[c])

\* DELETE /api/workflows/:id with a body that passes the field validators
Delete ==
    \E workflowId \in WorkflowIds, clientId \in ClientIds :
        LET found == FindById(workflows, workflowId)
            workflow == CHOOSE r \in found : TRUE
        IN  /\ content' = Undef
            /\ verdict' = NoVerdict
            /\ op' = Step("delete", 0, workflowId)
            /\ request' = [clientId |-> clientId, name |-> ""]
            /\ hashed' = NoHash
            /\ before' = before
            /\ IF found = {}
               THEN response' = Respond(404) /\ UNCHANGED <<workflows, download_logs, reports>>
               ELSE IF NotPublisher(workflow, clientId)
               THEN response' = Respond(403) /\ UNCHANGED <<workflows, download_logs, reports>>
               ELSE /\ response' = Respond(200)
                    /\ download_logs' = {l \in download_logs : l.workflow_id # workflowId}
                    /\ reports' = {r \in reports : r.workflow_id # workflowId}
                    /\ workflows' = workflows \ {workflow}

\* GET /api/workflows/:id
GetWorkflow ==
    \E workflowId \in WorkflowIds :
        LET found == FindById(workflows, workflowId)
            workflow == CHOOSE r \in found : TRUE
        IN  /\ content' = Undef
            /\ verdict' = NoVerdict
            /\ op' = Step("get", 0, workflowId)
            /\ request' = NoRequest
            /\ hashed' = NoHash
            /\ before' = before
            /\ response' = IF found = {} THEN Respond(404) ELSE Deliver(workflow)
            /\ UNCHANGED <<workflows, download_logs, reports>>

\* POST /api/workflows/:id/download
Download ==
    \E workflowId \in WorkflowIds, clientIP \in ClientIPs :
        LET found == FindById(workflows, workflowId)
            workflow == CHOOSE r \in found : TRUE
            recentDownload == {l \in download_logs :
                                l.workflow_id = workflowId /\ l.ip_address = clientIP}
            counted == [workflow EXCEPT !.download_count = @ + 1]
        IN  /\ content' = Undef
            /\ verdict' = NoVerdict
            /\ op' = Step("download", 0, workflowId)
            /\ request' = NoRequest
            /\ hashed' = NoHash
            /\ before' = before
            /\ reports' = reports
            /\ IF found = {}
               THEN response' = Respond(404) /\ UNCHANGED <<workflows, download_logs>>
               ELSE /\ response' = Deliver(workflow)
                    /\ IF recentDownload = {}
                       THEN /\ download_logs' = download_logs \cup
                                    {[workflow_id |-> workflowId, ip_address |-> clientIP]}
                            /\ workflows' = (workflows \ {workflow}) \cup {counted}
                       ELSE UNCHANGED <<workflows, download_logs>>

\* POST /api/workflows/:id/report
Report ==
    \E workflowId \in WorkflowIds :
        /\ Cardinality(reports) < MaxReports
        /\ content' = Undef
        /\ verdict' = NoVerdict
        /\ op' = Step("report", 0, workflowId)
        /\ request' = NoRequest
        /\ hashed' = NoHash
        /\ before' = before
        /\ UNCHANGED <<workflows, download_logs>>
        /\ IF FindById(workflows, workflowId) = {}
           THEN response' = Respond(404) /\ reports' = reports
           ELSE /\ response' = Respond(200)
                /\ reports' = reports \cup
                        {[id |-> Cardinality(reports) + 1, workflow_id |-> workflowId]}

NextStore ==
    \/ Publish
    \/ Update
    \/ Delete
    \/ GetWorkflow
    \/ Download
    \/ Report

SpecStore == InitStore /\ [][NextStore]_vars

\* the request just answered carried content that validated and whose digest is
\* that of stored workflow r, another one than the request's own
Duplicates(r) ==
    /\ op'.name \in {"publish", "update"}
    /\ verdict'.valid
    /\ ~Hashes[content'].threw
    /\ r \in workflows
    /\ r.hash = Hashes[content'].digest
    /\ r.id # op'.key

\* C6: after any sequence of publish, content-update and delete requests no two
\* stored workflows have the same digest: a publish, or an update that reaches
\* its content, whose digest is that of another stored workflow is answered
\* "already exists" with that workflow's id and name, and stores nothing.
DigestsUnique ==
    /\ [](\A r1, r2 \in workflows : r1 # r2 => r1.hash # r2.hash)
    /\ [][\A r \in workflows :
            Duplicates(r) => (response' = Conflict(r) /\ workflows' = workflows)]_vars

\* a request was answered "already exists" while two workflows are stored
ConflictAnswered ==
    /\ response.status = 409
    /\ op.name = "update"
    /\ Cardinality(workflows) = 2

\* v holds no number that JSON.stringify writes as null
RECURSIVE AllFinite(_)
AllFinite(v) ==
    /\ ~(v.k = "number" /\ v.s = "Infinity")
    /\ \A i \in 1..Len(v.m) : AllFinite(v.m[i][2])

\* the rows of the table after the step whose content the step wrote
Written(rows, rows2) ==
    {r \in rows2 : \A q \in rows : q.id = r.id => q.content # r.content}

\* C14: the content a successful publish or content-update stores is the
\* submitted document, no field added, removed or changed, and a later get or
\* download of the workflow returns a document equal to it: every content a
\* request writes decodes to the document the request carried, and a get or
\* download answers with the decoded content of the row.
StoredAsSubmitted ==
    /\ [][\A r \in Written(workflows, workflows') :
            sanitizeWorkflow(content') = content' /\ Parsed[r.content] = content']_vars
    /\ [][(op'.name \in {"get", "download"} /\ response'.status = 200) =>
            \E r \in workflows : r.id = op'.key /\ response'.content = Parsed[r.content]]_vars

\* the same statement for the documents all of whose numbers are finite
FiniteStoredAsSubmitted ==
    /\ [][AllFinite(content') =>
            \A r \in Written(workflows, workflows') :
                sanitizeWorkflow(content') = content' /\ Parsed[r.content] = content']_vars
    /\ [][(op'.name \in {"get", "download"} /\ response'.status = 200) =>
            \E r \in workflows : r.id = op'.key /\ response'.content = Parsed[r.content]]_vars

\* a stored document was downloaded
Downloaded ==
    /\ op.name = "download"
    /\ response.status = 200
    /\ \E r \in workflows : r.id = op.key /\ response.content = Parsed[r.content]

\* calculateWorkflowHash of the document each stored text decodes to
StoredHashes == [t \in DOMAIN Parsed |-> calculateWorkflowHash(Parsed[t])]

\* row r's hash and node_count are those of the document its content holds
InStep(r) ==
    /\ ~StoredHashes[r.content].threw
    /\ r.hash = StoredHashes[r.content].digest
    /\ r.node_count = Len(NodesOf(Parsed[r.content]))

\* C18: after any sequence of publish and update requests every stored
\* workflow's hash is calculateWorkflowHash of its stored content and its
\* node_count is the number of nodes of that content.
HashMatchesContent ==
    \A r \in workflows : InStep(r)

\* the same statement for the workflows whose content was submitted with finite
\* numbers only (a stored text with a null in it is that of the one document
\* submitted with a number that is not finite)
FiniteHashMatchesContent ==
    \A r \in workflows :
        (\E c \in StoreContents : AllFinite(c) /\ Stringify(sanitizeWorkflow(c)) = r.content)
            => InStep(r)

\* a workflow's content was replaced by an update, and a workflow was renamed
ContentUpdated ==
    /\ op.name = "update"
    /\ response.status = 200
    /\ content.k # "undefined"
    /\ \E r \in workflows : r.id = op.key /\ r.name = "n1" /\ InStep(r)

\* C19: an update request answered with an error (unknown id, clientId mismatch,
\* invalid content, digest conflict, nothing to update, or a failure) leaves
\* every stored workflow unchanged, whatever fields the request carries.
RejectedUpdateStoresNothing ==
    [][(op'.name = "update" /\ response'.status >= 400) => workflows' = workflows]_vars

\* the publisher's update with a new name and invalid content was rejected
RenameRejected ==
    /\ op.name = "update"
    /\ response.status = 400
    /\ request.name # ""
    /\ content.k # "undefined"
    /\ ~verdict.valid
    /\ \E r \in workflows : r.id = op.key /\ r.client_id = request.clientId /\ r.name = "n2"

\* the publisher's update with a new name and another workflow's content was
\* answered "already exists"
RenameConflicted ==
    /\ op.name = "update"
    /\ response.status = 409
    /\ request.name # ""
    /\ \E r \in workflows : r.id = op.key /\ r.client_id = request.clientId /\ r.name = "n2"

\* the request just answered is a delete or an update of row r by the client
\* that published it
ByPublisher(r) ==
    /\ op'.name \in {"delete", "update"}
    /\ op'.key = r.id
    /\ r.client_id.k = "string"
    /\ request'.clientId = r.client_id

\* a rejected delete removes no workflow, download log or report
RejectedDeleteRemovesNothing ==
    (op'.name = "delete" /\ response'.status >= 400) =>
        UNCHANGED <<workflows, download_logs, reports>>

\* C20 as stated: a stored workflow is deleted or modified only by a delete or
\* update request whose clientId is the clientId it was published with; a
\* workflow published without clientId is never deleted or modified; a rejected
\* delete removes no workflow, download log or report.
OnlyPublisherChanges ==
    /\ [][\A r \in workflows : r \notin workflows' => ByPublisher(r)]_vars
    /\ [][RejectedDeleteRemovesNothing]_vars

\* row r but for its download count
Published(r) == [r EXCEPT !.download_count = 0]

\* C20: a stored workflow is deleted, or modified in anything but its download
\* count, only by a delete or update request whose clientId is the clientId it
\* was published with, and so never when it was published without clientId;
\* any other change of it is a download adding one to its download count; a
\* rejected delete removes no workflow, download log or report.
OnlyPublisherChangesPublished ==
    /\ [][\A r \in workflows :
            (\A q \in workflows' : Published(q) # Published(r)) => ByPublisher(r)]_vars
    /\ [][\A r \in workflows :
            (r \notin workflows' /\ ~ByPublisher(r)) =>
                /\ op'.name = "download"
                /\ op'.key = r.id
                /\ [r EXCEPT !.download_count = @ + 1] \in workflows']_vars
    /\ [][RejectedDeleteRemovesNothing]_vars

\* a delete by another client than the publisher, of a workflow with a download
\* log and a report, was rejected
ForeignDeleteRejected ==
    /\ op.name = "delete"
    /\ response.status = 403
    /\ \E r \in workflows :
          /\ r.id = op.key
          /\ r.client_id.k = "string"
          /\ r.client_id # request.clientId
          /\ \E l \in download_logs : l.workflow_id = r.id
          /\ \E p \in reports : p.workflow_id = r.id

\* an update of a workflow published without clientId was rejected
AnonymousUpdateRejected ==
    /\ op.name = "update"
    /\ response.status = 403
    /\ \E r \in workflows : r.id = op.key /\ r.client_id = Null

====
